---- MODULE Spec2Model ----
(***************************************************************************)
(* Model of src/app.py: the POST /process handler (process_data), the two  *)
(* AI stages (call_data_cleaning_ai, call_triage_ai), the Gemini gateway   *)
(* (make_gemini_api_call) and the MongoDB insert.  The Gemini endpoint and *)
(* the store are the environment: every response they can give is an input *)
(* drawn from a finite set.  A handler is cut into steps at its blocking    *)
(* external calls (requests.post, insert_one), which is where the threads   *)
(* of a thread-per-request server interleave.                               *)
(***************************************************************************)
EXTENDS Integers, Sequences, FiniteSets, TLC

\* ------------------------------------------------------------------ bounds
NumReqs == 2        \* requests the front door serves concurrently (SpecConc)
MaxTime == 2        \* last tick of the wall clock (Spec)

Reqs == 1..NumReqs

\* ------------------------------------------------------- JSON value domain
\* A JSON value as Python holds it after json.loads / request.json.  Strings
\* are sequences of text pieces so that "starts with" is a real test.
JNull == [t |-> "null"]
JStr(s) == [t |-> "str", s |-> s]
JList(n) == [t |-> "list", n |-> n]
JNum(n) == [t |-> "num", n |-> n]
JBool(b) == [t |-> "bool", b |-> b]
JObj(f) == [t |-> "obj", o |-> f]
\* the str produced by datetime.isoformat() for the clock reading n
IsoFormat(n) == [t |-> "iso8601", at |-> n]
\* a Python name not yet assigned
Unbound == [t |-> "unbound"]
EmptyDict == [k \in {} |-> JNull]

IsDict(v) == v.t = "obj"
Keys(v) == DOMAIN v.o
\* dict.get(k): the value, or None when the key is missing
Get(v, k) == IF k \in DOMAIN v.o THEN v.o[k] ELSE JNull
\* (variant) the test written `raw_data is None`: an empty value passes it
TruthyIsNotNone(v) == v.t # "null"

\* Python truthiness, as `if not raw_data` evaluates it
Truthy(v) ==
    CASE v.t = "null" -> FALSE
      [] v.t = "str" -> Len(v.s) > 0
      [] v.t = "list" -> v.n > 0
      [] v.t = "num" -> v.n # 0
      [] v.t = "bool" -> v.b
      [] v.t = "obj" -> DOMAIN v.o # {}
      [] OTHER -> TRUE
StartsWith(s, p) == Len(s) >= Len(p) /\ SubSeq(s, 1, Len(p)) = p

\* ---------------------------------------------------------------- messages
DisclaimerText == "<b>Disclaimer: This is not medical advice. If your symptoms are severe or worsen, please visit the nearest emergency room immediately.</b>"
MsgNoUserData == <<"No user data provided.">>
MsgNoKey == <<"Gemini API key is not configured on the server.">>
MsgStatus(code) == <<"API Error: Received status code ", ToString(code)>>
MsgNetwork == <<"Network error while contacting Gemini API.">>
MsgParse == <<"Could not parse valid JSON from Gemini response.">>
MsgGeneric == <<"An unexpected server error occurred.">>
\* str(e) of an exception the code does not raise itself (interpreter, Flask, pymongo)
MsgInternal(what) == <<"internal: ", what>>

\* ------------------------------------------------------------- exceptions
\* cls is the Python class the except clauses of process_data test; kind is
\* the error category of the raise site.
NoExc == [cls |-> "none", kind |-> "none", stage |-> "none", msg |-> <<>>]
Raise(cls, kind, msg) == [cls |-> cls, kind |-> kind, stage |-> "none", msg |-> msg]
StageKinds == {"ConfigurationError", "ExternalServiceError", "ResponseFormatError"}

\* ------------------------------------------------ the Gemini HTTP endpoint
\* What requests.post can come back with.  The body of a 2xx answer is one of:
\* not JSON at all; JSON in which a key or index of the candidate path is
\* missing (KeyError / IndexError); JSON in which a step of the path is not
\* subscriptable or the text is not a str (TypeError); or a candidate text,
\* itself valid JSON (val is what json.loads makes of it) or not.
Transport == [k |-> "transport"]
Http(code, body) == [k |-> "http", code |-> code, body |-> body]
BodyNotJson == [b |-> "notJson"]
BodyNoPath == [b |-> "noPath"]
BodyBadPath == [b |-> "badPath"]
BodyText(valid, val) == [b |-> "text", valid |-> valid, val |-> val]

Ok(v) == [ok |-> TRUE, val |-> v, exc |-> NoExc]
Err(e) == [ok |-> FALSE, val |-> Unbound, exc |-> e]

\* (variant) the status is never looked at
raise_for_status_skipped(code) == FALSE

\* response.raise_for_status(): 4xx and 5xx raise HTTPError
raise_for_status(code) == code >= 400 /\ code < 600

\* make_gemini_api_call from requests.post's outcome on: the set of ways the
\* call can end.  A 2xx body that is not JSON ends in the RequestException
\* clause or in the JSONDecodeError clause, depending on whether the installed
\* requests raises its own JSONDecodeError (a RequestException) from
\* response.json(); both are possible builds.
make_gemini_api_call(resp) ==
    IF resp.k = "transport"
    THEN {Err(Raise("ConnectionError", "ExternalServiceError", MsgNetwork))}
    ELSE IF raise_for_status(resp.code)
    THEN {Err(Raise("ConnectionError", "ExternalServiceError", MsgStatus(resp.code)))}
    ELSE CASE resp.body.b = "notJson" ->
                {Err(Raise("ConnectionError", "ExternalServiceError", MsgNetwork)),
                 Err(Raise("ValueError", "ResponseFormatError", MsgParse))}
           [] resp.body.b = "noPath" ->
                {Err(Raise("ValueError", "ResponseFormatError", MsgParse))}
           [] resp.body.b = "badPath" ->
                {Err(Raise("TypeError", "Unexpected", MsgInternal("TypeError")))}
           [] OTHER ->
                IF resp.body.valid
                THEN {Ok(resp.body.val)}
                ELSE {Err(Raise("ValueError", "ResponseFormatError", MsgParse))}

\* ------------------------------------------------------------------ state
VARIABLES
    API_KEY,                  \* TRUE iff GEMINI_API_KEY is set (read once at import)
    now,                      \* the wall clock datetime.utcnow() reads
    frame,                    \* per request: the locals of its process_data call
    appointments_collection   \* the documents of db.appointments, in insertion order

vars == <<API_KEY, now, frame, appointments_collection>>

\* pc is the orchestrator step; inflight says a requests.post is outstanding.
\* calls, got, invocations, trace, startedAt, triageAt and inserted are history
\* kept for the properties: the payloads sent out, the answers received, the
\* gateway calls entered, the steps passed, the clock at arrival and at the
\* triage return, the inserts done.
InitFrame ==
    [pc |-> "Idle", inflight |-> FALSE, body |-> Unbound,
     raw_data |-> Unbound, cleaned_data |-> Unbound, triage_result |-> Unbound,
     final_appointment_data |-> Unbound,
     status |-> 0, reply |-> Unbound, exc |-> NoExc,
     calls |-> <<>>, got |-> <<>>, invocations |-> 0, trace |-> <<>>,
     startedAt |-> 0, triageAt |-> 0, inserted |-> 0]

Init ==
    /\ API_KEY \in BOOLEAN
    /\ now = 0
    /\ frame = [r \in Reqs |-> InitFrame]
    /\ appointments_collection = <<>>

\* ------------------------------------------------------------ process_data
ErrorBody(msg) == JObj([error |-> JStr(msg)])

\* (variant) only ConnectionError is a known error; ValueError falls through
ExceptClauseNarrow(e) ==
    IF e.cls \in {"ConnectionError"}
    THEN ErrorBody(e.msg)
    ELSE ErrorBody(MsgGeneric)

\* (variant) one clause for everything, answering str(e)
ExceptClauseLeaky(e) == ErrorBody(e.msg)

\* the two except clauses of process_data
ExceptClause(e) ==
    IF e.cls \in {"ValueError", "ConnectionError"}
    THEN ErrorBody(e.msg)
    ELSE ErrorBody(MsgGeneric)

\* an exception e raised in step `stage` unwinds to the except clauses
Fail(f, e, stage) ==
    [f EXCEPT !.pc = "Failed", !.inflight = FALSE,
              !.exc = [e EXCEPT !.stage = stage],
              !.status = 500, !.reply = ExceptClause(e),
              !.trace = Append(@, "Failed")]

\* the early return for a missing payload
ClientError(f, ud) ==
    [f EXCEPT !.pc = "Failed", !.raw_data = ud,
              !.status = 400, !.reply = ErrorBody(MsgNoUserData),
              !.trace = Append(@, "Failed")]

\* (variant) the request goes out before the key is looked at
GatewayEnterPostFirst(f, stage, content) ==
    LET g == [f EXCEPT !.invocations = @ + 1,
                       !.calls = Append(@, [stage |-> stage, content |-> content])]
    IN IF ~API_KEY
       THEN Fail(g, Raise("ValueError", "ConfigurationError", MsgNoKey), stage)
       ELSE [g EXCEPT !.inflight = TRUE]

\* entry of make_gemini_api_call up to requests.post: the key check, then the
\* outbound call carrying `content`
GatewayEnter(f, stage, content) ==
    LET g == [f EXCEPT !.invocations = @ + 1] IN
    IF ~API_KEY
    THEN Fail(g, Raise("ValueError", "ConfigurationError", MsgNoKey), stage)
    ELSE [g EXCEPT !.inflight = TRUE,
                   !.calls = Append(@, [stage |-> stage, content |-> content])]

\* the user content of the triage payload
TriageContent(cleaned) ==
    JObj([symptoms |-> Get(cleaned, "symptoms"),
          history |-> Get(cleaned, "history"),
          conditions |-> Get(cleaned, "conditions")])

\* (variant) the literal written with **cleaned_data last: its keys win
MergeRecordCleanedLast(cleaned, triage, t) ==
    JObj([k \in Keys(cleaned) \cup {"referral", "bookingTimestampUTC"} |->
            IF k \in Keys(cleaned)
            THEN cleaned.o[k]
            ELSE IF k = "referral"
            THEN JObj([assignedDepartment |-> Get(triage, "department"),
                       aiPrecautions |-> Get(triage, "precautions")])
            ELSE IsoFormat(t)])

\* {**cleaned_data, "referral": {...}, "bookingTimestampUTC": ...}: later keys win
MergeRecord(cleaned, triage, t) ==
    JObj([k \in Keys(cleaned) \cup {"referral", "bookingTimestampUTC"} |->
            IF k = "referral"
            THEN JObj([assignedDepartment |-> Get(triage, "department"),
                       aiPrecautions |-> Get(triage, "precautions")])
            ELSE IF k = "bookingTimestampUTC"
            THEN IsoFormat(t)
            ELSE cleaned.o[k]])

\* insert_one gives a document without "_id" a fresh ObjectId and writes it
\* into the dict; a document that brings its own "_id" keeps it
ObjectId(n) == [t |-> "oid", n |-> n]
WithId(doc, id) ==
    IF "_id" \in Keys(doc)
    THEN doc
    ELSE JObj([k \in Keys(doc) \cup {"_id"} |-> IF k = "_id" THEN id ELSE doc.o[k]])

\* the unique index on "_id": a second document with a stored "_id" is refused
DuplicateKey(doc, coll) ==
    /\ "_id" \in Keys(doc)
    /\ \E i \in DOMAIN coll : coll[i].o["_id"] = doc.o["_id"]

\* request.json: a body that is not JSON (or not sent as JSON) raises
Invalid == [t |-> "invalid"]

Arrive(r, b) ==
    /\ frame[r].pc = "Idle"
    /\ frame' = [frame EXCEPT ![r] =
                    [@ EXCEPT !.pc = "Received", !.body = b,
                              !.startedAt = now, !.trace = <<"Received">>]]
    /\ UNCHANGED <<API_KEY, now, appointments_collection>>

\* request.json.get('userData') and the `if not raw_data` test
Validate(r) ==
    /\ frame[r].pc = "Received"
    /\ LET f == frame[r]
           b == f.body
       IN frame' = [frame EXCEPT ![r] =
            IF b.t = "invalid"
            THEN Fail(f, Raise("BadRequest", "Unexpected", MsgInternal("BadRequest")), "input")
            ELSE IF ~IsDict(b)
            THEN Fail(f, Raise("AttributeError", "Unexpected", MsgInternal("AttributeError")), "input")
            ELSE IF ~Truthy(Get(b, "userData"))
            THEN ClientError(f, Get(b, "userData"))
            ELSE [f EXCEPT !.pc = "Cleaning", !.raw_data = Get(b, "userData"),
                           !.trace = Append(@, "Cleaning")]]
    /\ UNCHANGED <<API_KEY, now, appointments_collection>>

\* call_data_cleaning_ai up to the outbound call
CleaningCall(r) ==
    /\ frame[r].pc = "Cleaning"
    /\ ~frame[r].inflight
    /\ frame' = [frame EXCEPT ![r] = GatewayEnter(@, "cleaning", @.raw_data)]
    /\ UNCHANGED <<API_KEY, now, appointments_collection>>

\* the cleaning call comes back
CleaningReturn(r, resp) ==
    /\ frame[r].pc = "Cleaning"
    /\ frame[r].inflight
    /\ \E res \in make_gemini_api_call(resp) :
         LET f == [frame[r] EXCEPT !.got = Append(@, resp)] IN
         frame' = [frame EXCEPT ![r] =
            IF res.ok
            THEN [f EXCEPT !.pc = "Triaging", !.inflight = FALSE,
                           !.cleaned_data = res.val,
                           !.trace = Append(@, "Triaging")]
            ELSE Fail(f, res.exc, "cleaning")]
    /\ UNCHANGED <<API_KEY, now, appointments_collection>>

\* call_triage_ai up to the outbound call: cleaned_data.get(...) first
TriageCall(r) ==
    /\ frame[r].pc = "Triaging"
    /\ ~frame[r].inflight
    /\ frame' = [frame EXCEPT ![r] =
          IF ~IsDict(@.cleaned_data)
          THEN Fail(@, Raise("AttributeError", "Unexpected", MsgInternal("AttributeError")), "triage")
          ELSE GatewayEnter(@, "triage", TriageContent(@.cleaned_data))]
    /\ UNCHANGED <<API_KEY, now, appointments_collection>>

\* the triage call comes back
TriageReturn(r, resp) ==
    /\ frame[r].pc = "Triaging"
    /\ frame[r].inflight
    /\ \E res \in make_gemini_api_call(resp) :
         LET f == [frame[r] EXCEPT !.got = Append(@, resp)] IN
         frame' = [frame EXCEPT ![r] =
            IF res.ok
            THEN [f EXCEPT !.pc = "Merging", !.inflight = FALSE,
                           !.triage_result = res.val, !.triageAt = now,
                           !.trace = Append(@, "Merging")]
            ELSE Fail(f, res.exc, "triage")]
    /\ UNCHANGED <<API_KEY, now, appointments_collection>>

\* building final_appointment_data: triage_result.get(...) and utcnow()
Merge(r) ==
    /\ frame[r].pc = "Merging"
    /\ frame' = [frame EXCEPT ![r] =
          IF ~IsDict(@.triage_result)
          THEN Fail(@, Raise("AttributeError", "Unexpected", MsgInternal("AttributeError")), "merge")
          ELSE [@ EXCEPT !.pc = "Persisting",
                         !.final_appointment_data =
                             MergeRecord(frame[r].cleaned_data,
                                         frame[r].triage_result, now),
                         !.trace = Append(@, "Persisting")]]
    /\ UNCHANGED <<API_KEY, now, appointments_collection>>

\* (variant) an insert that skips a document whose content is already stored
PersistDedup(r, ok) ==
    /\ frame[r].pc = "Persisting"
    /\ frame[r].inserted = 0
    /\ IF ok /\ ~DuplicateKey(frame[r].final_appointment_data, appointments_collection)
       THEN LET doc == WithId(frame[r].final_appointment_data,
                              ObjectId(Len(appointments_collection) + 1))
                dup == \E i \in DOMAIN appointments_collection :
                          WithId(frame[r].final_appointment_data,
                                 appointments_collection[i].o["_id"])
                            = appointments_collection[i]
            IN /\ appointments_collection' =
                     IF dup THEN appointments_collection
                     ELSE Append(appointments_collection, doc)
               /\ frame' = [frame EXCEPT ![r] =
                     [@ EXCEPT !.final_appointment_data = doc, !.inserted = @ + 1]]
       ELSE /\ frame' = [frame EXCEPT ![r] =
                     Fail(@, Raise("PyMongoError", "Unexpected", MsgInternal("PyMongoError")), "persist")]
            /\ UNCHANGED appointments_collection
    /\ UNCHANGED <<API_KEY, now>>

\* appointments_collection.insert_one(final_appointment_data): it stores the
\* document, or raises a pymongo error (the store is unreachable, the "_id"
\* is taken) and stores nothing
Persist(r, ok) ==
    /\ frame[r].pc = "Persisting"
    /\ frame[r].inserted = 0
    /\ IF ok /\ ~DuplicateKey(frame[r].final_appointment_data, appointments_collection)
       THEN LET doc == WithId(frame[r].final_appointment_data,
                              ObjectId(Len(appointments_collection) + 1))
            IN /\ appointments_collection' = Append(appointments_collection, doc)
               /\ frame' = [frame EXCEPT ![r] =
                     [@ EXCEPT !.final_appointment_data = doc, !.inserted = @ + 1]]
       ELSE /\ frame' = [frame EXCEPT ![r] =
                     Fail(@, Raise("PyMongoError", "Unexpected", MsgInternal("PyMongoError")), "persist")]
            /\ UNCHANGED appointments_collection
    /\ UNCHANGED <<API_KEY, now>>

\* (variant) the answer is sent without waiting for the insert
RespondEarly(r) ==
    /\ frame[r].pc = "Persisting"
    /\ frame' = [frame EXCEPT ![r] =
          [@ EXCEPT !.pc = "Responded", !.status = 200,
                    !.reply = frame[r].triage_result,
                    !.trace = Append(@, "Responded")]]
    /\ UNCHANGED <<API_KEY, now, appointments_collection>>

\* return jsonify(triage_result)
Respond(r) ==
    /\ frame[r].pc = "Persisting"
    /\ frame[r].inserted > 0
    /\ frame' = [frame EXCEPT ![r] =
          [@ EXCEPT !.pc = "Responded", !.status = 200,
                    !.reply = frame[r].triage_result,
                    !.trace = Append(@, "Responded")]]
    /\ UNCHANGED <<API_KEY, now, appointments_collection>>

\* the wall clock advances
Tick ==
    /\ now < MaxTime
    /\ now' = now + 1
    /\ UNCHANGED <<API_KEY, frame, appointments_collection>>

\* ------------------------------------------------------------------ inputs
Intake == JObj([symptoms |-> JStr(<<"chest pain and dizziness">>)])
Bodies ==
    {Invalid, JNull, JList(1), JObj(EmptyDict),
     JObj([userData |-> JNull]), JObj([userData |-> JObj(EmptyDict)]),
     JObj([userData |-> JStr(<<>>)]), JObj([userData |-> JList(0)]),
     JObj([userData |-> JNum(0)]), JObj([userData |-> JBool(FALSE)]),
     JObj([userData |-> JStr(<<"i feel dizzy">>)]),
     JObj([userData |-> Intake])}

Disclaimer == <<DisclaimerText>>
CleanedScenario ==
    JObj([symptoms |-> JStr(<<"Chest pain and dizziness">>), history |-> JStr(<<>>)])
CleanedClash ==
    JObj([symptoms |-> JStr(<<"Chest pain and dizziness">>),
          referral |-> JStr(<<"self">>),
          bookingTimestampUTC |-> JStr(<<"yesterday">>)])
CleanedWithId ==
    JObj([symptoms |-> JStr(<<"Chest pain and dizziness">>), _id |-> JStr(<<"p1">>)])
TriageScenario ==
    JObj([department |-> JStr(<<"Cardiology">>),
          precautions |-> JStr(<<DisclaimerText, " Rest and monitor.">>)])
TriageNoDisclaimer ==
    JObj([department |-> JStr(<<"Cardiology">>),
          precautions |-> JStr(<<"Rest and monitor.">>)])
TriageExtra ==
    JObj([department |-> JStr(<<"Neurology">>),
          precautions |-> JStr(<<DisclaimerText, " Avoid screens.">>),
          confidence |-> JStr(<<"high">>)])
OracleVals ==
    {CleanedScenario, CleanedClash, CleanedWithId, TriageScenario,
     TriageNoDisclaimer, TriageExtra, JObj(EmptyDict), JList(2), JNull}

Responses ==
    {Transport, Http(429, BodyNotJson), Http(503, BodyText(TRUE, TriageScenario)),
     Http(200, BodyNotJson), Http(200, BodyNoPath), Http(200, BodyBadPath),
     Http(200, BodyText(FALSE, Unbound))}
    \cup {Http(200, BodyText(TRUE, v)) : v \in OracleVals}

ConcBodies == {JObj(EmptyDict), JObj([userData |-> Intake])}
ConcResponses ==
    {Http(503, BodyNotJson), Http(200, BodyText(TRUE, CleanedScenario)),
     Http(200, BodyText(TRUE, CleanedWithId)),
     Http(200, BodyText(TRUE, TriageScenario))}

\* ------------------------------------------------------------ specifications
\* One request, every input and every oracle answer, with the clock.
Next ==
    \/ Tick
    \/ \E b \in Bodies : Arrive(1, b)
    \/ Validate(1)
    \/ CleaningCall(1)
    \/ \E resp \in Responses : CleaningReturn(1, resp)
    \/ TriageCall(1)
    \/ \E resp \in Responses : TriageReturn(1, resp)
    \/ Merge(1)
    \/ \E ok \in BOOLEAN : Persist(1, ok)
    \/ Respond(1)

Spec == Init /\ [][Next]_vars

\* NumReqs requests served by concurrent handler threads.
NextConc ==
    \E r \in Reqs :
        \/ \E b \in ConcBodies : Arrive(r, b)
        \/ Validate(r)
        \/ CleaningCall(r)
        \/ \E resp \in ConcResponses : CleaningReturn(r, resp)
        \/ TriageCall(r)
        \/ \E resp \in ConcResponses : TriageReturn(r, resp)
        \/ Merge(r)
        \/ \E ok \in BOOLEAN : Persist(r, ok)
        \/ Respond(r)

SpecConc == Init /\ [][NextConc]_vars

\* ================================================================ properties
Last(q) == q[Len(q)]
Answered(f) == f.pc \in {"Responded", "Failed"}
StageOf(f) == f.exc.stage \in {"cleaning", "triage"}

\* the message each stage error carries, read off what the stage met
NoCredential(f) == StageOf(f) /\ Len(f.got) < f.invocations
BadStatus(f) ==
    /\ StageOf(f) /\ Len(f.got) = f.invocations
    /\ Last(f.got).k = "http" /\ Last(f.got).code \notin 200..299
TransportFailed(f) ==
    StageOf(f) /\ Len(f.got) = f.invocations /\ Last(f.got).k = "transport"
Unparsable(f) ==
    /\ StageOf(f) /\ Len(f.got) = f.invocations
    /\ Last(f.got).k = "http" /\ Last(f.got).code \in 200..299
    /\ \/ Last(f.got).body.b = "noPath"
       \/ Last(f.got).body.b = "text" /\ ~Last(f.got).body.valid
BodyUnreadable(f) ==
    /\ StageOf(f) /\ Len(f.got) = f.invocations
    /\ Last(f.got).k = "http" /\ Last(f.got).code \in 200..299
    /\ Last(f.got).body.b = "notJson"

\* C1: a request whose Cleaning or Triage stage fails for lack of a credential,
\* on a non-success status or transport failure, or on an answer whose
\* candidate text path is missing or whose text is not valid JSON, is answered
\* 500 with that error's own message in `error` (the parse-failure message
\* for malformed JSON), and inserts no record.
C1_StageFailureAnswer ==
    \A r \in Reqs :
        LET f == frame[r] IN
        (f.pc = "Failed" /\ StageOf(f)) =>
            /\ NoCredential(f) => f.reply = ErrorBody(MsgNoKey)
            /\ BadStatus(f) => f.reply = ErrorBody(MsgStatus(Last(f.got).code))
            /\ TransportFailed(f) => f.reply = ErrorBody(MsgNetwork)
            /\ Unparsable(f) => f.reply = ErrorBody(MsgParse)
            /\ BodyUnreadable(f) => f.reply \in {ErrorBody(MsgNetwork), ErrorBody(MsgParse)}
            /\ (NoCredential(f) \/ BadStatus(f) \/ TransportFailed(f)
                    \/ Unparsable(f) \/ BodyUnreadable(f)) =>
                 /\ f.status = 500
                 /\ f.exc.kind \in StageKinds
                 /\ f.inserted = 0
                 /\ appointments_collection = <<>>

C1_Witness ==
    /\ frame[1].pc = "Failed" /\ frame[1].exc.stage = "triage"
    /\ Unparsable(frame[1])
    /\ Last(frame[1].got).body.b = "text"
    /\ frame[1].reply = ErrorBody(MsgParse)

\* C2: a request whose JSON object body has userData absent, null or empty is
\* answered 400 "No user data provided.", makes no outbound AI call and
\* persists nothing.
MissingUserData(f) ==
    /\ f.pc \notin {"Idle", "Received"}
    /\ IsDict(f.body)
    /\ \/ "userData" \notin Keys(f.body)
       \/ f.body.o.userData \in {JNull, JObj(EmptyDict), JStr(<<>>), JList(0)}

C2_MissingUserData ==
    \A r \in Reqs :
        LET f == frame[r] IN
        MissingUserData(f) =>
            /\ f.status = 400
            /\ f.reply = ErrorBody(MsgNoUserData)
            /\ f.calls = <<>> /\ f.invocations = 0
            /\ f.inserted = 0
            /\ appointments_collection = <<>>

C2_Witness ==
    /\ frame[1].pc = "Failed"
    /\ frame[1].body = JObj([userData |-> JObj(EmptyDict)])
    /\ frame[1].status = 400

\* C5: when the Cleaning call's answer has a non-success HTTP status, the
\* request makes no Triage call, persists nothing and is answered 500.
CleaningBadStatus(f) ==
    /\ Len(f.got) >= 1
    /\ f.got[1].k = "http" /\ f.got[1].code \notin 200..299

C10_OneCallPerInvocation ==
    \A r \in Reqs :
        LET f == frame[r] IN
        /\ API_KEY => Len(f.calls) = f.invocations
        /\ ~API_KEY => f.calls = <<>>
        /\ (~API_KEY /\ f.invocations > 0) =>
              /\ f.pc = "Failed" /\ f.invocations = 1
              /\ f.exc.kind = "ConfigurationError"
        /\ Len(f.calls) <= 2
        /\ Len(f.calls) >= 1 => f.calls[1].stage = "cleaning"
        /\ Len(f.calls) >= 2 => f.calls[2].stage = "triage"
        /\ Len(f.got) <= Len(f.calls)
        /\ f.inflight <=> Len(f.got) < Len(f.calls)
        /\ (f.pc = "Failed" /\ f.got # <<>>) => Len(f.got) = Len(f.calls)

C10_Witness ==
    /\ ~API_KEY
    /\ frame[1].pc = "Failed" /\ frame[1].invocations = 1
    /\ frame[1].calls = <<>>

\* C3: every 200 answer has exactly the two fields department and
\* precautions, whatever JSON values the two calls returned.
C3_ExactlyTwoFields ==
    \A r \in Reqs :
        frame[r].status = 200 =>
            /\ IsDict(frame[r].reply)
            /\ Keys(frame[r].reply) = {"department", "precautions"}

\* C4: in the persisted record, referral.assignedDepartment and
\* referral.aiPrecautions are the Triage result's department and precautions,
\* also when the cleaned record has keys referral or bookingTimestampUTC, and
\* bookingTimestampUTC is a clock reading taken after both stages returned,
\* so not before the request started.
C4_ReferralAndTimestamp ==
    \A r \in Reqs :
        LET f == frame[r]
            d == f.final_appointment_data
        IN f.inserted > 0 =>
            /\ \E i \in DOMAIN appointments_collection : appointments_collection[i] = d
            /\ d.o.referral.t = "obj"
            /\ Keys(d.o.referral) = {"assignedDepartment", "aiPrecautions"}
            /\ d.o.referral.o.assignedDepartment =
                  (IF "department" \in Keys(f.triage_result)
                   THEN f.triage_result.o.department ELSE JNull)
            /\ d.o.referral.o.aiPrecautions =
                  (IF "precautions" \in Keys(f.triage_result)
                   THEN f.triage_result.o.precautions ELSE JNull)
            /\ d.o.bookingTimestampUTC.t = "iso8601"
            /\ d.o.bookingTimestampUTC.at >= f.triageAt
            /\ f.triageAt >= f.startedAt
            /\ \A k \in Keys(f.cleaned_data) \ {"referral", "bookingTimestampUTC"} :
                  d.o[k] = f.cleaned_data.o[k]

C4_Witness ==
    /\ frame[1].inserted > 0
    /\ frame[1].cleaned_data = CleanedClash
    /\ frame[1].triage_result = TriageScenario
    /\ frame[1].startedAt = 0
    /\ frame[1].triageAt = 1
    /\ frame[1].final_appointment_data.o.bookingTimestampUTC = IsoFormat(2)

\* C6: one record per successful request and no deduplication: a request
\* answered 200 has inserted exactly one record, a request answered 400 or
\* 500 none, so once every request is answered the store holds as many
\* records as there are 200 answers; the records are pairwise distinct,
\* also those of identical requests.
C6_OneRecordPerSuccess ==
    /\ \A r \in Reqs :
          /\ frame[r].status \in {400, 500} => frame[r].inserted = 0
          /\ frame[r].status = 200 => frame[r].inserted = 1
    /\ Len(appointments_collection) = Cardinality({r \in Reqs : frame[r].inserted = 1})
    /\ (\A r \in Reqs : Answered(frame[r])) =>
          Len(appointments_collection) = Cardinality({r \in Reqs : frame[r].status = 200})
    /\ \A i, j \in DOMAIN appointments_collection :
          i # j => appointments_collection[i] # appointments_collection[j]

C6_Witness ==
    /\ \A r \in Reqs : Answered(frame[r])
    /\ \E p, q \in Reqs :
          /\ p # q
          /\ frame[p].status = 200 /\ frame[q].status = 200
          /\ frame[p].body = frame[q].body
          /\ frame[p].cleaned_data = frame[q].cleaned_data
          /\ frame[p].triage_result = frame[q].triage_result
    /\ Len(appointments_collection) = 2

\* C7: a failure that is not one of the three stage errors (the body is not
\* a JSON object, an oracle result is JSON but not an object, a step of the
\* candidate path has the wrong type, the insert fails after a successful
\* triage) is answered 500 with the fixed generic message, never with the
\* exception's text and never 200.
UnexpectedFailure(f) ==
    /\ f.pc = "Failed"
    /\ \/ ~IsDict(f.body)
       \/ f.cleaned_data # Unbound /\ ~IsDict(f.cleaned_data)
       \/ f.triage_result # Unbound /\ ~IsDict(f.triage_result)
       \/ f.got # <<>> /\ Last(f.got).k = "http"
            /\ Last(f.got).code \in 200..299 /\ Last(f.got).body.b = "badPath"
       \/ f.final_appointment_data # Unbound

C7_GenericServerError ==
    \A r \in Reqs :
        LET f == frame[r] IN
        /\ UnexpectedFailure(f) =>
              /\ f.status = 500
              /\ f.reply = ErrorBody(MsgGeneric)
              /\ f.reply # ErrorBody(f.exc.msg)
              /\ f.exc.kind \notin StageKinds
        /\ (f.pc = "Failed" /\ f.exc.cls # "none" /\ f.exc.kind \notin StageKinds) =>
              UnexpectedFailure(f)
        /\ (Answered(f) /\ f.body # Unbound /\ ~IsDict(f.body)) => f.status = 500

C7_Witness ==
    /\ frame[1].pc = "Failed"
    /\ frame[1].exc.stage = "persist"
    /\ IsDict(frame[1].triage_result)
    /\ frame[1].reply = ErrorBody(MsgGeneric)

\* C8: the precautions string of every 200 answer, and of every persisted
\* record's referral.aiPrecautions, starts with the disclaimer text.
HasDisclaimer(v) == v.t = "str" /\ StartsWith(v.s, Disclaimer)

C8_DisclaimerPrefix ==
    /\ \A r \in Reqs :
          frame[r].status = 200 => HasDisclaimer(Get(frame[r].reply, "precautions"))
    /\ \A i \in DOMAIN appointments_collection :
          HasDisclaimer(appointments_collection[i].o.referral.o.aiPrecautions)

\* C9: the steps of a request follow Received, Cleaning, Triaging, Merging,
\* Persisting, Responded, with Failed possible after any of the first five;
\* the Triage call goes out only after the Cleaning call returned a value and
\* carries that value's symptoms, history and conditions; the insert happens
\* only after the Triage call returned a value; 200 is sent only after the
\* insert returned.
Linear == <<"Received", "Cleaning", "Triaging", "Merging", "Persisting", "Responded">>

C9_LinearOrder ==
    \A r \in Reqs :
        LET f == frame[r] IN
        /\ \E n \in 0..Len(Linear) :
              \/ f.trace = SubSeq(Linear, 1, n)
              \/ n >= 1 /\ n < Len(Linear) /\ f.trace = Append(SubSeq(Linear, 1, n), "Failed")
        /\ \A i \in DOMAIN f.calls :
              f.calls[i].stage = "triage" =>
                  /\ i = 2 /\ f.calls[1].stage = "cleaning"
                  /\ Len(f.got) >= 1
                  /\ f.got[1] = Http(200, BodyText(TRUE, f.cleaned_data))
                  /\ \A k \in {"symptoms", "history", "conditions"} :
                        f.calls[i].content.o[k] =
                           (IF k \in Keys(f.cleaned_data) THEN f.cleaned_data.o[k] ELSE JNull)
        /\ f.inserted > 0 =>
              /\ Len(f.got) = 2 /\ Len(f.calls) = 2
              /\ f.got[2] = Http(200, BodyText(TRUE, f.triage_result))
        /\ f.status = 200 =>
              /\ f.inserted = 1
              /\ \E i \in DOMAIN appointments_collection :
                    appointments_collection[i] = f.final_appointment_data

C9_Witness ==
    /\ frame[1].trace = Linear
    /\ frame[1].status = 200
    /\ frame[1].cleaned_data = CleanedScenario
    /\ frame[1].calls[2].content.o.symptoms = JStr(<<"Chest pain and dizziness">>)

====
